---- MODULE Spec2Model ----
(***************************************************************************)
(* Clobber (src/main.py): the board, move generation, make/undo, the       *)
(* evaluation, the alpha-beta search run as an explicit call stack, the    *)
(* AI move selector and the game loop play().                              *)
(***************************************************************************)
EXTENDS Integers, Sequences, FiniteSets, TLC

\* Bounds of the model.
MaxCells == 8      \* boards with rows * cols <= MaxCells
MaxDepth == 4      \* depth arguments 0 .. MaxDepth of the calls a client makes

\* Program constants.
MinSize == 2       \* get_grid_size_from_user: rows > 1 and cols > 1
DefaultDepth == 5  \* ai_move(self, depth=5)

BLACK == "B"
WHITE == "W"
EMPTY == "."

\* Python's None: as a move (best_move) and as a player (last_player).
None == <<>>
NoPlayer == "None"

\* math.inf: larger than any value of evaluate (|evaluate| <= rows * cols).
Inf == MaxCells + 1

\* Directions (up, down, left, right).
DIRECTIONS == << <<-1, 0>>, <<1, 0>>, <<0, -1>>, <<0, 1>> >>

VARIABLES
    rows, cols,       \* self.rows, self.cols
    board,            \* self.board: [cell -> BLACK | WHITE | EMPTY], cells <<i, j>>
    current_player,   \* self.current_player
    trail,            \* moves a client made and has not undone, each with the state before it
    undos,            \* number of undo_move calls since the last make_move of the client
    stack,            \* call stack of ai_move / alpha_beta frames, innermost last
    ret,              \* value returned by the alpha_beta frame that returned last
    best,             \* move returned by the ai_move call that returned last
    call,             \* the outermost call in progress or just returned, with the state at the call
    pc,               \* position of play(): "new", "loop", "ai", "over"
    last_player,      \* play()'s local last_player
    winner,           \* the player play() declares winner
    attempt           \* the last make_move call of play() or of a client passing any
                      \* coordinates: its argument and the state it was made in

vars == <<rows, cols, board, current_player, trail, undos, stack, ret, best, call,
          pc, last_player, winner, attempt>>

----------------------------------------------------------------------------
\* Board and moves.

\* Mutant: the test of line 43 made for odd i + j.
init_board_odd(r, c) ==
    [p \in (0 .. r - 1) \X (0 .. c - 1) |->
        IF (p[1] + p[2]) % 2 = 1 THEN BLACK ELSE WHITE]

\* Lines 39-48: BLACK where (i + j) % 2 == 0, WHITE elsewhere.
init_board(r, c) ==
    [p \in (0 .. r - 1) \X (0 .. c - 1) |->
        IF (p[1] + p[2]) % 2 = 0 THEN BLACK ELSE WHITE]

\* Python list indexing: an index k of a list of length n is valid for
\* -n <= k < n, and a negative index counts from the end.
ValidIndex(k, n) == -n <= k /\ k < n
NormIndex(k, n) == IF k < 0 THEN k + n ELSE k
InRange(i, j) == ValidIndex(i, rows) /\ ValidIndex(j, cols)
CellAt(i, j) == <<NormIndex(i, rows), NormIndex(j, cols)>>

\* Mutant: switch_player always hands the turn to BLACK.
switch_player_black(p) == BLACK

\* Lines 81-83.
switch_player(p) == IF p = BLACK THEN WHITE ELSE BLACK

\* Mutant: the test of line 63 without its check for EMPTY.
Capturable_any(b, player, ni, nj) ==
    /\ 0 <= ni /\ ni < rows
    /\ 0 <= nj /\ nj < cols
    /\ b[<<ni, nj>>] # player

\* The test of line 63 on the neighbour (ni, nj) of a stone of player.
Capturable(b, player, ni, nj) ==
    /\ 0 <= ni /\ ni < rows
    /\ 0 <= nj /\ nj < cols
    /\ b[<<ni, nj>>] # player
    /\ b[<<ni, nj>>] # EMPTY

\* Mutant: the loop over DIRECTIONS stops before its last element.
CellMoves_three(b, player, i, j) ==
    IF b[<<i, j>>] = player
    THEN LET all == [d \in 1 .. 3 |->
                       << <<i, j>>, <<i + DIRECTIONS[d][1], j + DIRECTIONS[d][2]>> >>]
             Ok(m) == Capturable(b, player, m[2][1], m[2][2])
         IN SelectSeq(all, Ok)
    ELSE <<>>

\* The moves of the stone at (i, j), in the order of DIRECTIONS.
CellMoves(b, player, i, j) ==
    IF b[<<i, j>>] = player
    THEN LET all == [d \in 1 .. 4 |->
                       << <<i, j>>, <<i + DIRECTIONS[d][1], j + DIRECTIONS[d][2]>> >>]
             Ok(m) == Capturable(b, player, m[2][1], m[2][2])
         IN SelectSeq(all, Ok)
    ELSE <<>>

RECURSIVE MovesFrom(_, _, _)
MovesFrom(b, player, n) ==
    IF n >= rows * cols
    THEN <<>>
    ELSE CellMoves(b, player, n \div cols, n % cols) \o MovesFrom(b, player, n + 1)

\* Row-major over the source cells, then the directions.
get_legal_moves(b, player) == MovesFrom(b, player, 0)

\* Mutant: make_move without line 74, the source cell keeps its stone.
make_move_keep(b, p, move) ==
    LET i == move[1][1]
        j == move[1][2]
        ni == move[2][1]
        nj == move[2][2]
        same == [board |-> b, current_player |-> p]
    IN IF ~InRange(i, j) THEN same
       ELSE IF b[CellAt(i, j)] # p THEN same
       ELSE IF ~InRange(ni, nj) THEN same
       ELSE [board |-> [b EXCEPT ![CellAt(ni, nj)] = b[CellAt(i, j)]],
             current_player |-> switch_player(p)]

\* Mutant: make_move without the test of lines 71-72.
make_move_unchecked(b, p, move) ==
    LET i == move[1][1]
        j == move[1][2]
        ni == move[2][1]
        nj == move[2][2]
        same == [board |-> b, current_player |-> p]
    IN IF ~InRange(i, j) THEN same
       ELSE IF ~InRange(ni, nj) THEN same
       ELSE LET b1 == [b EXCEPT ![CellAt(ni, nj)] = b[CellAt(i, j)]]
                b2 == [b1 EXCEPT ![CellAt(i, j)] = EMPTY]
            IN [board |-> b2, current_player |-> switch_player(p)]

\* make_move: the new board and current_player; unchanged on IndexError / ValueError.
make_move(b, p, move) ==
    LET i == move[1][1]
        j == move[1][2]
        ni == move[2][1]
        nj == move[2][2]
        same == [board |-> b, current_player |-> p]
    IN IF ~InRange(i, j) THEN same                      \* IndexError, line 71
       ELSE IF b[CellAt(i, j)] # p THEN same            \* ValueError, line 72
       ELSE IF ~InRange(ni, nj) THEN same               \* IndexError, line 73
       ELSE LET b1 == [b EXCEPT ![CellAt(ni, nj)] = b[CellAt(i, j)]]
                b2 == [b1 EXCEPT ![CellAt(i, j)] = EMPTY]
            IN [board |-> b2, current_player |-> switch_player(p)]

\* Mutant: undo_move puts back a stone of the mover's colour at the destination.
undo_move_same(b, p, move) ==
    LET i == move[1][1]
        j == move[1][2]
        ni == move[2][1]
        nj == move[2][2]
        same == [board |-> b, current_player |-> p]
    IN IF ~InRange(ni, nj) \/ ~InRange(i, j) THEN same
       ELSE LET b1 == [b EXCEPT ![CellAt(i, j)] = b[CellAt(ni, nj)]]
                b2 == [b1 EXCEPT ![CellAt(ni, nj)] =
                          IF b1[CellAt(i, j)] = BLACK THEN BLACK ELSE WHITE]
            IN [board |-> b2, current_player |-> switch_player(p)]

\* undo_move: the captured colour is inferred from the colour now at the source.
undo_move(b, p, move) ==
    LET i == move[1][1]
        j == move[1][2]
        ni == move[2][1]
        nj == move[2][2]
        same == [board |-> b, current_player |-> p]
    IN IF ~InRange(ni, nj) \/ ~InRange(i, j) THEN same  \* IndexError, line 127
       ELSE LET b1 == [b EXCEPT ![CellAt(i, j)] = b[CellAt(ni, nj)]]
                b2 == [b1 EXCEPT ![CellAt(ni, nj)] =
                          IF b1[CellAt(i, j)] = BLACK THEN WHITE ELSE BLACK]
            IN [board |-> b2, current_player |-> switch_player(p)]

\* Mutant: line 87 without its second "not".
is_terminal_white_moves(b) ==
    get_legal_moves(b, BLACK) = <<>> /\ get_legal_moves(b, WHITE) # <<>>

\* Line 87: not get_legal_moves(BLACK) and not get_legal_moves(WHITE).
is_terminal(b) ==
    get_legal_moves(b, BLACK) = <<>> /\ get_legal_moves(b, WHITE) = <<>>

countOf(b, c) == Cardinality({p \in DOMAIN b : b[p] = c})

evaluate(b, p) ==
    IF p = BLACK
    THEN countOf(b, BLACK) - countOf(b, WHITE)
    ELSE countOf(b, WHITE) - countOf(b, BLACK)

----------------------------------------------------------------------------
\* Construction: ClobberGame() with the grid size read from the user.

NoCall == [fn |-> "none", depth |-> 0, maximizing |-> FALSE,
           board |-> <<>>, player |-> NoPlayer]

NoAttempt == [move |-> None, board |-> <<>>, player |-> NoPlayer]

Construct ==
    /\ rows \in MinSize .. MaxCells
    /\ cols \in MinSize .. MaxCells
    /\ rows * cols <= MaxCells
    /\ board = init_board(rows, cols)
    /\ current_player = BLACK
    /\ trail = <<>>
    /\ undos = 0
    /\ stack = <<>>
    /\ ret = 0
    /\ best = None
    /\ call = NoCall
    /\ last_player = NoPlayer
    /\ winner = NoPlayer
    /\ attempt = NoAttempt

----------------------------------------------------------------------------
\* A client that makes legal moves and takes them back in reverse order.

MakeMove(m) ==
    /\ LET s == make_move(board, current_player, m)
       IN /\ board' = s.board
          /\ current_player' = s.current_player
    /\ trail' = Append(trail, [move |-> m, board |-> board, player |-> current_player])
    /\ undos' = 0
    /\ UNCHANGED <<attempt, rows, cols, stack, ret, best, call, pc, last_player, winner>>

MakeLegalMove ==
    \E k \in 1 .. Len(get_legal_moves(board, current_player)) :
        MakeMove(get_legal_moves(board, current_player)[k])

UndoMove ==
    /\ trail # <<>>
    /\ LET s == undo_move(board, current_player, trail[Len(trail)].move)
       IN /\ board' = s.board
          /\ current_player' = s.current_player
    /\ trail' = SubSeq(trail, 1, Len(trail) - 1)
    /\ undos' = undos + 1
    /\ UNCHANGED <<attempt, rows, cols, stack, ret, best, call, pc, last_player, winner>>

InitMoves == Construct /\ pc = "new"

NextMoves == MakeLegalMove \/ UndoMove

SpecMoves == InitMoves /\ [][NextMoves]_vars

----------------------------------------------------------------------------
\* The search: ai_move and alpha_beta as frames of an explicit call stack.
\* A frame's pc: "entry" (called), "loop" (at the head of its for loop),
\* "wait" (its recursive call is in progress or has just returned),
\* "break" (left the loop by the pruning break).

Max(a, b) == IF a >= b THEN a ELSE b
Min(a, b) == IF a <= b THEN a ELSE b

Frame(fn, depth, alpha, beta, maximizing) ==
    [fn |-> fn, depth |-> depth, alpha |-> alpha, beta |-> beta,
     maximizing |-> maximizing, moves |-> <<>>, k |-> 0, acc |-> 0,
     best_move |-> None, pc |-> "entry"]

Top == stack[Len(stack)]
Pop == SubSeq(stack, 1, Len(stack) - 1)
SetTop(f) == [stack EXCEPT ![Len(stack)] = f]
Running(fn) == stack # <<>> /\ Top.fn = fn

\* Mutant: line 97 without "or self.is_terminal()".
IsLeaf_depth_only(depth, b) == depth = 0

\* depth == 0 or self.is_terminal()
IsLeaf(depth, b) == depth = 0 \/ is_terminal(b)

\* max_eval = -math.inf / min_eval = math.inf
InitEval(maximizing) == IF maximizing THEN -Inf ELSE Inf

\* Mutant: the pruning test with its comparison turned round.
Prune_reversed(alpha, beta) == alpha <= beta

\* if beta <= alpha: break
Prune(alpha, beta) == beta <= alpha

\* Mutant: the initial best_value with the two infinities exchanged.
InitBestValue_swapped(p) == IF p = BLACK THEN Inf ELSE -Inf

\* best_value = -math.inf if self.current_player == BLACK else math.inf
InitBestValue(p) == IF p = BLACK THEN -Inf ELSE Inf

\* Mutant: the comparisons of lines 144 and 147 made with >= and <=.
Improves_or_equal(p, move_value, best_value) ==
    \/ p = BLACK /\ move_value >= best_value
    \/ p = WHITE /\ move_value <= best_value

\* The two comparisons of ai_move's loop body.
Improves(p, move_value, best_value) ==
    \/ p = BLACK /\ move_value > best_value
    \/ p = WHITE /\ move_value < best_value

\* alpha_beta, lines 97-98: a leaf returns evaluate().
ABLeaf ==
    /\ Running("alpha_beta")
    /\ Top.pc = "entry"
    /\ IsLeaf(Top.depth, board)
    /\ ret' = evaluate(board, current_player)
    /\ stack' = Pop
    /\ UNCHANGED <<attempt, rows, cols, board, current_player, trail, undos, best, call,
                   pc, last_player, winner>>

\* alpha_beta, lines 100-102 / 111-113: the accumulator and the move list.
ABExpand ==
    /\ Running("alpha_beta")
    /\ Top.pc = "entry"
    /\ ~IsLeaf(Top.depth, board)
    /\ stack' = SetTop([Top EXCEPT !.acc = InitEval(Top.maximizing),
                                   !.moves = get_legal_moves(board, current_player),
                                   !.k = 1,
                                   !.pc = "loop"])
    /\ UNCHANGED <<attempt, rows, cols, board, current_player, trail, undos, ret, best, call,
                   pc, last_player, winner>>

\* alpha_beta, lines 103-104 / 114-115: make_move(move) and the recursive call.
ABMake ==
    /\ Running("alpha_beta")
    /\ Top.pc = "loop"
    /\ Top.k <= Len(Top.moves)
    /\ LET s == make_move(board, current_player, Top.moves[Top.k])
       IN /\ board' = s.board
          /\ current_player' = s.current_player
    /\ stack' = Append(SetTop([Top EXCEPT !.pc = "wait"]),
                       Frame("alpha_beta", Top.depth - 1, Top.alpha, Top.beta,
                             ~Top.maximizing))
    /\ UNCHANGED <<attempt, rows, cols, trail, undos, ret, best, call, pc, last_player, winner>>

\* Mutant: the pruning break is taken before undo_move(move).
ABResume_break_first ==
    /\ Running("alpha_beta")
    /\ Top.pc = "wait"
    /\ LET acc == IF Top.maximizing THEN Max(Top.acc, ret) ELSE Min(Top.acc, ret)
           alpha == IF Top.maximizing THEN Max(Top.alpha, ret) ELSE Top.alpha
           beta == IF Top.maximizing THEN Top.beta ELSE Min(Top.beta, ret)
           s == IF Prune(alpha, beta)
                THEN [board |-> board, current_player |-> current_player]
                ELSE undo_move(board, current_player, Top.moves[Top.k])
       IN /\ board' = s.board
          /\ current_player' = s.current_player
          /\ stack' = SetTop([Top EXCEPT !.acc = acc, !.alpha = alpha, !.beta = beta,
                                         !.k = IF Prune(alpha, beta) THEN @ ELSE @ + 1,
                                         !.pc = IF Prune(alpha, beta)
                                                THEN "break" ELSE "loop"])
    /\ UNCHANGED <<attempt, rows, cols, trail, undos, ret, best, call, pc, last_player, winner>>

\* alpha_beta, lines 105-109 / 116-120: undo_move(move), the accumulator, the
\* bound and the pruning test.
ABResume ==
    /\ Running("alpha_beta")
    /\ Top.pc = "wait"
    /\ LET s == undo_move(board, current_player, Top.moves[Top.k])
       IN /\ board' = s.board
          /\ current_player' = s.current_player
    /\ LET acc == IF Top.maximizing THEN Max(Top.acc, ret) ELSE Min(Top.acc, ret)
           alpha == IF Top.maximizing THEN Max(Top.alpha, ret) ELSE Top.alpha
           beta == IF Top.maximizing THEN Top.beta ELSE Min(Top.beta, ret)
       IN stack' = SetTop([Top EXCEPT !.acc = acc, !.alpha = alpha, !.beta = beta,
                                      !.k = IF Prune(alpha, beta) THEN @ ELSE @ + 1,
                                      !.pc = IF Prune(alpha, beta)
                                             THEN "break" ELSE "loop"])
    /\ UNCHANGED <<attempt, rows, cols, trail, undos, ret, best, call, pc, last_player, winner>>

\* alpha_beta, lines 110 / 121: return max_eval / min_eval.
ABReturn ==
    /\ Running("alpha_beta")
    /\ \/ Top.pc = "break"
       \/ Top.pc = "loop" /\ Top.k > Len(Top.moves)
    /\ ret' = Top.acc
    /\ stack' = Pop
    /\ UNCHANGED <<attempt, rows, cols, board, current_player, trail, undos, best, call,
                   pc, last_player, winner>>

\* ai_move, lines 135-139.
AiEnter ==
    /\ Running("ai_move")
    /\ Top.pc = "entry"
    /\ stack' = SetTop([Top EXCEPT !.acc = InitBestValue(current_player),
                                   !.best_move = None,
                                   !.moves = get_legal_moves(board, current_player),
                                   !.k = 1,
                                   !.pc = "loop"])
    /\ UNCHANGED <<attempt, rows, cols, board, current_player, trail, undos, ret, best, call,
                   pc, last_player, winner>>

\* ai_move, lines 140-141.
AiMake ==
    /\ Running("ai_move")
    /\ Top.pc = "loop"
    /\ Top.k <= Len(Top.moves)
    /\ LET s == make_move(board, current_player, Top.moves[Top.k])
       IN /\ board' = s.board
          /\ current_player' = s.current_player
    /\ stack' = Append(SetTop([Top EXCEPT !.pc = "wait"]),
                       Frame("alpha_beta", Top.depth - 1, Top.alpha, Top.beta, FALSE))
    /\ UNCHANGED <<attempt, rows, cols, trail, undos, ret, best, call, pc, last_player, winner>>

\* ai_move, lines 142-149: current_player in the comparisons is the one undo_move left.
AiResume ==
    /\ Running("ai_move")
    /\ Top.pc = "wait"
    /\ LET s == undo_move(board, current_player, Top.moves[Top.k])
           better == Improves(s.current_player, ret, Top.acc)
       IN /\ board' = s.board
          /\ current_player' = s.current_player
          /\ stack' = SetTop([Top EXCEPT
                                !.acc = IF better THEN ret ELSE @,
                                !.best_move = IF better THEN Top.moves[Top.k] ELSE @,
                                !.k = @ + 1,
                                !.pc = "loop"])
    /\ UNCHANGED <<attempt, rows, cols, trail, undos, ret, best, call, pc, last_player, winner>>

\* ai_move, line 151.
AiReturn ==
    /\ Running("ai_move")
    /\ Top.pc = "loop"
    /\ Top.k > Len(Top.moves)
    /\ best' = Top.best_move
    /\ stack' = Pop
    /\ UNCHANGED <<attempt, rows, cols, board, current_player, trail, undos, ret, call,
                   pc, last_player, winner>>

Search ==
    \/ ABLeaf \/ ABExpand \/ ABMake \/ ABResume \/ ABReturn
    \/ AiEnter \/ AiMake \/ AiResume \/ AiReturn

----------------------------------------------------------------------------
\* A client of the class: between calls it makes legal moves, and it calls
\* alpha_beta(depth, -inf, +inf, maximizing) and ai_move(depth).

Idle == stack = <<>> /\ pc = "new"

ClientMove ==
    /\ Idle
    /\ \E k \in 1 .. Len(get_legal_moves(board, current_player)) :
          LET s == make_move(board, current_player,
                             get_legal_moves(board, current_player)[k])
          IN /\ board' = s.board
             /\ current_player' = s.current_player
    /\ ret' = 0
    /\ best' = None
    /\ call' = NoCall
    /\ UNCHANGED <<attempt, rows, cols, trail, undos, stack, pc, last_player, winner>>

CallAlphaBeta ==
    /\ Idle
    /\ \E d \in 0 .. MaxDepth, mx \in BOOLEAN :
          /\ stack' = <<Frame("alpha_beta", d, -Inf, Inf, mx)>>
          /\ call' = [fn |-> "alpha_beta", depth |-> d, maximizing |-> mx,
                      board |-> board, player |-> current_player]
    /\ ret' = 0
    /\ best' = None
    /\ UNCHANGED <<attempt, rows, cols, board, current_player, trail, undos,
                   pc, last_player, winner>>

CallAiMove ==
    /\ Idle
    /\ \E d \in 1 .. MaxDepth :
          /\ stack' = <<Frame("ai_move", d, -Inf, Inf, FALSE)>>
          /\ call' = [fn |-> "ai_move", depth |-> d, maximizing |-> FALSE,
                      board |-> board, player |-> current_player]
    /\ ret' = 0
    /\ best' = None
    /\ UNCHANGED <<attempt, rows, cols, board, current_player, trail, undos,
                   pc, last_player, winner>>

Init == Construct /\ pc = "new"

Next == ClientMove \/ CallAlphaBeta \/ CallAiMove \/ Search

Spec == Init /\ [][Next]_vars

----------------------------------------------------------------------------
\* play(): the AI (BLACK, ai_move with the default depth) against a manual
\* player (WHITE), whose get_manual_move returns only members of legal_moves.

\* Mutant: the test of line 183 made on WHITE.
Declared_swapped(lp) == IF lp = WHITE THEN BLACK ELSE WHITE

\* Lines 183-186: the winner play() prints.
Declared(lp) == IF lp = BLACK THEN BLACK ELSE WHITE

\* Lines 160-162: the loop condition holds and it is BLACK's turn.
PlayAiTurn ==
    /\ pc = "loop"
    /\ ~is_terminal(board)
    /\ current_player = BLACK
    /\ stack' = <<Frame("ai_move", DefaultDepth, -Inf, Inf, FALSE)>>
    /\ call' = [fn |-> "ai_move", depth |-> DefaultDepth, maximizing |-> FALSE,
                board |-> board, player |-> current_player]
    /\ ret' = 0
    /\ best' = None
    /\ pc' = "ai"
    /\ UNCHANGED <<attempt, rows, cols, board, current_player, trail, undos, last_player, winner>>

\* Lines 163-168: ai_move has returned.
PlayAiMoved ==
    /\ pc = "ai"
    /\ stack = <<>>
    /\ IF best # None
       THEN /\ LET s == make_move(board, current_player, best)
               IN /\ board' = s.board
                  /\ current_player' = s.current_player
            /\ attempt' = [move |-> best, board |-> board, player |-> current_player]
            /\ last_player' = BLACK
            /\ pc' = "loop"
            /\ UNCHANGED winner
       ELSE /\ pc' = "over"
            /\ winner' = Declared(last_player)
            /\ UNCHANGED <<board, current_player, last_player, attempt>>
    /\ UNCHANGED <<rows, cols, trail, undos, stack, ret, best, call>>

\* Coordinates a caller or the manual player may give: every index of the
\* board, every negative index Python accepts, and one past either end.
RawCells == (-(rows + 1) .. rows) \X (-(cols + 1) .. cols)
RawMoves == {<<from, to>> : from \in RawCells, to \in RawCells}

\* Mutant: get_manual_move returns whatever four numbers were entered.
Accepted_any(m, legal_moves) == TRUE

\* Line 198: ((row1, col1), (row2, col2)) in legal_moves.
Accepted(m, legal_moves) == \E k \in 1 .. Len(legal_moves) : legal_moves[k] = m

\* Lines 169-174 and get_manual_move: the four numbers entered are returned
\* when they are a member of legal_moves; anything else is answered by a new
\* prompt, so get_manual_move never returns None.
PlayManual ==
    /\ pc = "loop"
    /\ ~is_terminal(board)
    /\ current_player # BLACK
    /\ \E legal_moves \in {get_legal_moves(board, current_player)} :
          \E m \in RawMoves :
             /\ Accepted(m, legal_moves)
             /\ LET s == make_move(board, current_player, m)
                IN /\ board' = s.board
                   /\ current_player' = s.current_player
             /\ attempt' = [move |-> m, board |-> board, player |-> current_player]
    /\ last_player' = WHITE
    /\ UNCHANGED <<rows, cols, trail, undos, stack, ret, best, call, pc, winner>>

\* Lines 157, 179-186: the loop condition fails.
PlayOver ==
    /\ pc = "loop"
    /\ is_terminal(board)
    /\ pc' = "over"
    /\ winner' = Declared(last_player)
    /\ UNCHANGED <<attempt, rows, cols, board, current_player, trail, undos, stack, ret, best,
                   call, last_player>>

Play == PlayAiTurn \/ PlayAiMoved \/ PlayManual \/ PlayOver

\* game = ClobberGame(); game.play()
InitPlay == Construct /\ pc = "loop"

NextPlay == Play \/ Search

SpecPlay == InitPlay /\ [][NextPlay]_vars

\* The end-to-end scenario: BLACK's first move is made by the caller, and
\* play() runs from there.  The loop always takes its next step, and the
\* manual player eventually enters a legal move.
FirstMove ==
    /\ pc = "new"
    /\ \E k \in 1 .. Len(get_legal_moves(board, current_player)) :
          LET s == make_move(board, current_player,
                             get_legal_moves(board, current_player)[k])
          IN /\ board' = s.board
             /\ current_player' = s.current_player
             /\ trail' = Append(trail, [move |-> get_legal_moves(board, current_player)[k],
                                        board |-> board, player |-> current_player])
    /\ pc' = "loop"
    /\ UNCHANGED <<attempt, rows, cols, undos, stack, ret, best, call, last_player, winner>>

NextScenario == FirstMove \/ Play \/ Search

SpecScenario == Init /\ [][NextScenario]_vars /\ WF_vars(NextScenario)

----------------------------------------------------------------------------
\* A caller that, after any number of legal moves, calls make_move once with
\* coordinates of its own choosing.

RawMove ==
    /\ Idle
    /\ attempt = NoAttempt
    /\ \E m \in RawMoves :
          /\ LET s == make_move(board, current_player, m)
             IN /\ board' = s.board
                /\ current_player' = s.current_player
          /\ attempt' = [move |-> m, board |-> board, player |-> current_player]
    /\ UNCHANGED <<rows, cols, trail, undos, stack, ret, best, call, pc,
                   last_player, winner>>

LegalThenRaw == attempt = NoAttempt /\ ClientMove

NextRaw == LegalThenRaw \/ RawMove

SpecRaw == Init /\ [][NextRaw]_vars

----------------------------------------------------------------------------
\* Termination: a game of legal moves, and between the moves calls of
\* alpha_beta with a negative depth, which never reaches depth == 0 and stops
\* only at terminal positions.

GameMove ==
    /\ Idle
    /\ \E k \in 1 .. Len(get_legal_moves(board, current_player)) :
          LET m == get_legal_moves(board, current_player)[k]
              s == make_move(board, current_player, m)
          IN /\ board' = s.board
             /\ current_player' = s.current_player
             /\ trail' = Append(trail, [move |-> m, board |-> board,
                                        player |-> current_player])
    /\ ret' = 0
    /\ best' = None
    /\ call' = NoCall
    /\ UNCHANGED <<attempt, rows, cols, undos, stack, pc, last_player, winner>>

CallNegative ==
    /\ Idle
    /\ \E d \in {-MaxDepth, -1}, mx \in BOOLEAN :
          /\ stack' = <<Frame("alpha_beta", d, -Inf, Inf, mx)>>
          /\ call' = [fn |-> "alpha_beta", depth |-> d, maximizing |-> mx,
                      board |-> board, player |-> current_player]
    /\ ret' = 0
    /\ best' = None
    /\ UNCHANGED <<attempt, rows, cols, board, current_player, trail, undos,
                   pc, last_player, winner>>

\* The steps of alpha_beta.
AlphaBeta == ABLeaf \/ ABExpand \/ ABMake \/ ABResume \/ ABReturn

NextTerm == GameMove \/ CallNegative \/ AlphaBeta

\* The program is sequential: a call that has been made keeps running.
SpecTerm == Init /\ [][NextTerm]_vars /\ WF_vars(AlphaBeta)

----------------------------------------------------------------------------
\* Properties of make_move / undo_move and of the move generator (SpecMoves).

Opponent(p) == IF p = BLACK THEN WHITE ELSE BLACK
Stones(b) == countOf(b, BLACK) + countOf(b, WHITE)
Last(s) == s[Len(s)]
SeqToSet(s) == {s[k] : k \in 1 .. Len(s)}

\* C1: undo_move of the moves made, in reverse order, restores every cell of
\* the board and current_player: each undo_move gives back the state in which
\* the move it undoes was made, so undoing mk..m1 gives back the state before m1.
C1_UndoRestores ==
    [][Len(trail') < Len(trail) =>
          /\ board' = Last(trail).board
          /\ current_player' = Last(trail).player]_vars

\* Two moves of a longer sequence have been undone.
C1_Witness == undos >= 2 /\ Len(trail) >= 1

\* The pairs the rules of Clobber allow to player p on board b.
LegalSet(b, p) ==
    {m \in (DOMAIN b) \X (DOMAIN b) :
        /\ b[m[1]] = p
        /\ b[m[2]] = Opponent(p)
        /\ \/ m[1][1] = m[2][1] /\ (m[1][2] - m[2][2]) \in {-1, 1}
           \/ m[1][2] = m[2][2] /\ (m[1][1] - m[2][1]) \in {-1, 1}}

\* C5: get_legal_moves(p) returns exactly the pairs (from, to) with p's stone
\* at from, to in bounds and one orthogonal step away, and the opponent's
\* stone at to: none is wrong, none is omitted, none is listed twice.
C5_LegalMovesExact ==
    \A p \in {BLACK, WHITE} :
        /\ SeqToSet(get_legal_moves(board, p)) = LegalSet(board, p)
        /\ Len(get_legal_moves(board, p)) = Cardinality(LegalSet(board, p))

\* A stone of the player to move has an empty neighbour and a capturable one.
C5_Witness ==
    \E m \in LegalSet(board, current_player) :
        \E c \in DOMAIN board :
            /\ board[c] = EMPTY
            /\ (m[1][1] - c[1]) * (m[1][1] - c[1]) + (m[1][2] - c[2]) * (m[1][2] - c[2]) = 1

\* C6: make_move of a legal move removes exactly one stone, of the opponent
\* and none of the mover, and undo_move of it returns the stone count to its
\* value before the move; no step adds a stone otherwise.
C6_StoneCount ==
    [][/\ Len(trail') > Len(trail) =>
             /\ Stones(board') = Stones(board) - 1
             /\ countOf(board', current_player) = countOf(board, current_player)
             /\ countOf(board', Opponent(current_player)) =
                    countOf(board, Opponent(current_player)) - 1
       /\ Len(trail') < Len(trail) =>
             Stones(board') = Stones(Last(trail).board)
       /\ Len(trail') = Len(trail) => Stones(board') = Stones(board)]_vars

\* A move has been made and undone again after two others.
C6_Witness ==
    undos = 1 /\ Len(trail) >= 2 /\ Stones(board) = rows * cols - Len(trail)

\* The initial 2x2 board.
Board2x2 ==
    [p \in (0 .. 1) \X (0 .. 1) |->
        IF p \in {<<0, 0>>, <<1, 1>>} THEN BLACK ELSE WHITE]

Initial2x2 ==
    rows = 2 /\ cols = 2 /\ board = Board2x2 /\ current_player = BLACK

\* C9 as stated: on the initial 2x2 board get_legal_moves(BLACK) has exactly two moves.
C9_TwoMoves == Initial2x2 => Len(get_legal_moves(board, BLACK)) = 2

\* C9 as amended: on the initial 2x2 board get_legal_moves(BLACK) has exactly
\* four moves, two for each of BLACK's stones.
C9_FourMoves ==
    Initial2x2 =>
        get_legal_moves(board, BLACK) =
            << << <<0, 0>>, <<1, 0>> >>, << <<0, 0>>, <<0, 1>> >>,
               << <<1, 1>>, <<0, 1>> >>, << <<1, 1>>, <<1, 0>> >> >>

C9_Witness == Initial2x2 /\ trail = <<>> /\ undos = 0

----------------------------------------------------------------------------
\* Properties of the search (Spec).

Returned(fn) == stack = <<>> /\ call.fn = fn

\* The moves made and not yet undone inside the search: one for every frame
\* that is waiting for, or has just got back, the value of its recursive call.
RECURSIVE Outstanding(_)
Outstanding(st) ==
    IF st = <<>>
    THEN <<>>
    ELSE (IF Head(st).pc = "wait" THEN <<Head(st).moves[Head(st).k]>> ELSE <<>>)
             \o Outstanding(Tail(st))

RECURSIVE Replay(_, _, _)
Replay(b, p, ms) ==
    IF ms = <<>>
    THEN [board |-> b, current_player |-> p]
    ELSE LET s == make_move(b, p, Head(ms))
         IN Replay(s.board, s.current_player, Tail(ms))

\* C2: alpha_beta and ai_move leave the board and current_player as they were
\* at the call, and inside them every make_move is undone once before the
\* next move is tried or the frame returns, also after the pruning break: at
\* every step of a call the state is the state at the call with exactly the
\* moves of the frames still waiting applied, and with none once it returned.
C2_SearchRestores ==
    call # NoCall =>
        LET s == Replay(call.board, call.player, Outstanding(stack))
        IN /\ board = s.board
           /\ current_player = s.current_player

\* A nested frame has left its loop by the break with moves still untried.
C2_Witness ==
    /\ Len(stack) >= 2
    /\ Top.pc = "break"
    /\ Top.k < Len(Top.moves)

SetMax(S) == CHOOSE x \in S : \A y \in S : y <= x
SetMin(S) == CHOOSE x \in S : \A y \in S : x <= y

\* Exhaustive minimax without pruning: the same move generator, the same
\* leaves, the same alternation, the score of a leaf given by Leaf(b, p).
RECURSIVE Minimax(_, _, _, _, _)
Minimax(Leaf(_, _), b, p, depth, maximizing) ==
    IF depth = 0 \/ is_terminal(b)
    THEN Leaf(b, p)
    ELSE LET ms == get_legal_moves(b, p)
             vals == {Minimax(Leaf, make_move(b, p, ms[k]).board, Opponent(p),
                              depth - 1, ~maximizing) : k \in 1 .. Len(ms)}
         IN IF maximizing THEN SetMax(vals \cup {-Inf}) ELSE SetMin(vals \cup {Inf})

\* C3: alpha_beta(depth, -inf, +inf, maximizing) returns the value of
\* exhaustive unpruned minimax on the same position, depth and maximizing.
C3_AlphaBetaIsMinimax ==
    Returned("alpha_beta") =>
        ret = Minimax(evaluate, call.board, call.player, call.depth, call.maximizing)

\* A depth-4 search of a 2x3 position with more than one move has returned.
C3_Witness ==
    /\ Returned("alpha_beta")
    /\ rows * cols = 6
    /\ call.depth = 4
    /\ Len(get_legal_moves(call.board, call.player)) >= 3
    /\ ret = Minimax(evaluate, call.board, call.player, call.depth, call.maximizing)

\* BLACK's stones minus WHITE's, whoever is to move.
BlackLead(b, p) == countOf(b, BLACK) - countOf(b, WHITE)

\* The value for BLACK of BLACK's move m at the position of the call.
BlackValue(m) ==
    Minimax(BlackLead, make_move(call.board, BLACK, m).board, WHITE,
            call.depth - 1, FALSE)

\* C4: for BLACK to move, the move ai_move returns maximises, among BLACK's
\* legal moves, the depth-limited minimax value (BLACK maximising, WHITE
\* minimising) with every leaf scored countOf(BLACK) - countOf(WHITE).
C4_BestForBlack ==
    (/\ Returned("ai_move")
     /\ call.player = BLACK
     /\ get_legal_moves(call.board, BLACK) # <<>>) =>
        /\ best # None
        /\ \A m \in SeqToSet(get_legal_moves(call.board, BLACK)) :
               BlackValue(m) <= BlackValue(best)

\* C7: ai_move(depth), depth >= 1, returns None if and only if
\* get_legal_moves(current_player) is empty.
C7_NoneIffNoMoves ==
    (Returned("ai_move") /\ call.depth >= 1) =>
        (best = None <=> get_legal_moves(call.board, call.player) = <<>>)

\* ai_move has returned a move for WHITE, who had several.
C7_Witness ==
    /\ Returned("ai_move")
    /\ call.player = WHITE
    /\ Len(get_legal_moves(call.board, WHITE)) >= 2
    /\ best # None

----------------------------------------------------------------------------
\* Properties of the game loop (SpecPlay, SpecScenario).

\* C8: when play() has left its loop, the winner it declares is the player
\* who made the last applied move, and the other player, who is then
\* current_player, has no legal move.
C8_LastMoverWins ==
    pc = "over" =>
        /\ last_player \in {BLACK, WHITE}
        /\ winner = last_player
        /\ winner = Opponent(current_player)
        /\ get_legal_moves(board, current_player) = <<>>

\* A game on a board of more than four cells has ended.
C8_Witness ==
    pc = "over" /\ rows * cols > 4 /\ Stones(board) < rows * cols

\* BLACK's first move, made by the caller, is one of the two of the scenario.
ScenarioMoves ==
    { << <<0, 0>>, <<0, 1>> >>, << <<1, 1>>, <<1, 0>> >> }

AfterFirstMove ==
    /\ rows = 2 /\ cols = 2
    /\ Len(trail) = 1
    /\ trail[1].board = Board2x2
    /\ trail[1].move \in ScenarioMoves

BlackHasWon ==
    /\ pc = "over"
    /\ is_terminal(board)
    /\ last_player = BLACK
    /\ winner = BLACK

\* C10: on the 2x2 board, after BLACK's first move (0,0)->(0,1) or
\* (1,1)->(1,0) WHITE has exactly one stone, and every continuation of the game
\* loop from there reaches a terminal position in which BLACK made the last
\* move and is declared the winner.
C10_BlackWins2x2 ==
    /\ [](AfterFirstMove /\ last_player = NoPlayer => countOf(board, WHITE) = 1)
    /\ (AfterFirstMove ~> BlackHasWon)

C10_Witness == AfterFirstMove /\ BlackHasWon /\ Stones(board) = 1

----------------------------------------------------------------------------
\* make_move called with any coordinates (SpecRaw).

\* A cell outside [0, rows) x [0, cols).
OffBoard(cell) ==
    ~(0 <= cell[1] /\ cell[1] < rows /\ 0 <= cell[2] /\ cell[2] < cols)

Rejected == board = attempt.board /\ current_player = attempt.player

\* C11: make_move called with a source or a destination outside
\* [0, rows) x [0, cols), negative coordinates included, is rejected: every
\* cell of the board and current_player stay as they were.
C11_OffBoardRejected ==
    attempt # NoAttempt /\ (OffBoard(attempt.move[1]) \/ OffBoard(attempt.move[2]))
        => Rejected

\* make_move called with a source cell that Python's indexing accepts and
\* that does not hold the caller's colour.
SourceNotOwn ==
    /\ attempt # NoAttempt
    /\ LET i == attempt.move[1][1]
           j == attempt.move[1][2]
       IN /\ InRange(i, j)
          /\ attempt.board[CellAt(i, j)] # attempt.player

\* C12: make_move called in any state with a source cell that holds the
\* opponent's stone or EMPTY is rejected: no cell of the board changes and
\* current_player is not switched.
C12_ForeignSourceRejected == SourceNotOwn => Rejected

\* The source is EMPTY, the destination is the opponent's stone next to it.
C12_Witness ==
    /\ SourceNotOwn
    /\ ~OffBoard(attempt.move[1])
    /\ attempt.board[attempt.move[1]] = EMPTY
    /\ ~OffBoard(attempt.move[2])
    /\ attempt.board[attempt.move[2]] = Opponent(attempt.player)
    /\ attempt.move[2][1] = attempt.move[1][1]
    /\ attempt.move[2][2] = attempt.move[1][2] + 1
    /\ Rejected

----------------------------------------------------------------------------
\* The tie-break of ai_move (Spec).

\* The value of alpha_beta(depth - 1, -inf, +inf, False) after each legal move
\* of the position of the call, in the order of get_legal_moves.
MoveValues ==
    LET ms == get_legal_moves(call.board, call.player)
    IN [k \in 1 .. Len(ms) |->
           Minimax(evaluate, make_move(call.board, call.player, ms[k]).board,
                   Opponent(call.player), call.depth - 1, FALSE)]

\* Position k holds the best value, and no earlier position holds it.
FirstBest(vals, p, k) ==
    /\ \A j \in DOMAIN vals : IF p = BLACK THEN vals[j] <= vals[k]
                                           ELSE vals[k] <= vals[j]
    /\ \A j \in 1 .. (k - 1) : vals[j] # vals[k]

\* C13: ai_move breaks ties by generation order: the move it returns is the
\* first one, in the order of get_legal_moves, whose value
\* alpha_beta(depth-1, -inf, +inf, False) is the maximum (BLACK to move) or
\* the minimum (WHITE to move) over all legal moves; a later move of equal
\* value never replaces it.
C13_FirstBestMove ==
    (/\ Returned("ai_move")
     /\ get_legal_moves(call.board, call.player) # <<>>) =>
        \E vals \in {MoveValues} :
            \E k \in DOMAIN vals :
                /\ best = get_legal_moves(call.board, call.player)[k]
                /\ FirstBest(vals, call.player, k)

\* The returned move shares the best value with a later move.
C13_Witness ==
    /\ Returned("ai_move")
    /\ call.depth >= 2
    /\ \E vals \in {MoveValues} :
          \E k \in DOMAIN vals :
              /\ best = get_legal_moves(call.board, call.player)[k]
              /\ FirstBest(vals, call.player, k)
              /\ \E j \in DOMAIN vals : j > k /\ vals[j] = vals[k]
              /\ \E j \in DOMAIN vals : vals[j] # vals[k]

----------------------------------------------------------------------------
\* The moves play() hands to make_move (SpecPlay).

\* The move of the last make_move call of play() was legal where it was made.
AttemptLegal ==
    attempt.move \in SeqToSet(get_legal_moves(attempt.board, attempt.player))

\* A step of play() that calls make_move: the call is made in the current
\* state, takes no error branch, and the turn passes to the other player,
\* who did not make the previous move.
AppliedStep ==
    attempt' # attempt =>
        /\ attempt'.board = board
        /\ attempt'.player = current_player
        /\ board' = make_move(board, current_player, attempt'.move).board
        /\ board' # board
        /\ current_player' = Opponent(current_player)
        /\ attempt # NoAttempt => attempt.player = Opponent(current_player)

\* C14: every move play() hands to make_move, produced by ai_move or accepted
\* by get_manual_move from any four numbers entered (out-of-range, negative
\* or non-adjacent ones included), is a member of
\* get_legal_moves(current_player) in the state where it is applied; so
\* make_move takes no error branch in play() and current_player alternates
\* after every applied move.
C14_PlayAppliesLegalMoves ==
    /\ [](attempt # NoAttempt => AttemptLegal)
    /\ [][AppliedStep]_vars

\* The manual player's move has been applied after the AI's.
C14_Witness ==
    /\ attempt # NoAttempt
    /\ attempt.player = WHITE
    /\ AttemptLegal
    /\ last_player = WHITE
    /\ board = make_move(attempt.board, WHITE, attempt.move).board
    /\ current_player = BLACK

----------------------------------------------------------------------------
\* Terminal positions and the initial position (SpecMoves).

\* C15: in every state is_terminal() is true if and only if neither BLACK nor
\* WHITE has a legal move, whoever current_player is.
C15_TerminalIffNoMoves ==
    is_terminal(board) <=> (LegalSet(board, BLACK) = {} /\ LegalSet(board, WHITE) = {})

\* A terminal position with stones of both colours apart, WHITE to move.
C15_Witness ==
    /\ is_terminal(board)
    /\ countOf(board, BLACK) >= 1
    /\ countOf(board, WHITE) >= 1
    /\ current_player = WHITE
    /\ undos = 0

\* The state right after construction: no move has been made or taken back.
Constructed == trail = <<>> /\ undos = 0

Even(n) == \E h \in 0 .. n : n = 2 * h

\* C16: for all rows >= 2 and cols >= 2, after construction board[i][j] is
\* BLACK if and only if i + j is even and WHITE otherwise, no cell is EMPTY,
\* and current_player is BLACK.
C16_InitialCheckerboard ==
    Constructed =>
        /\ rows >= 2 /\ cols >= 2
        /\ DOMAIN board = (0 .. rows - 1) \X (0 .. cols - 1)
        /\ \A i \in 0 .. rows - 1 : \A j \in 0 .. cols - 1 :
              /\ board[<<i, j>>] = BLACK <=> Even(i + j)
              /\ board[<<i, j>>] = WHITE <=> ~Even(i + j)
              /\ board[<<i, j>>] # EMPTY
        /\ current_player = BLACK

\* A freshly constructed board with more columns than rows.
C16_Witness ==
    /\ Constructed
    /\ rows = 2 /\ cols = 4
    /\ board[<<0, 0>>] = BLACK /\ board[<<1, 3>>] = BLACK
    /\ board[<<0, 3>>] = WHITE /\ board[<<1, 0>>] = WHITE

----------------------------------------------------------------------------
\* Positions without a move for the player to move (Spec).

\* The current player has no legal move, the other colour has one.
OnlyCurrentStuck(b, p) ==
    get_legal_moves(b, p) = <<>> /\ get_legal_moves(b, Opponent(p)) # <<>>

----------------------------------------------------------------------------
\* The moves the search makes and takes back (Spec).

\* The frame on top is about to call make_move(move).
AboutToMake == stack # <<>> /\ Top.pc = "loop" /\ Top.k <= Len(Top.moves)

\* The frame on top has its recursive call back and is about to call undo_move(move).
AboutToUndo == stack # <<>> /\ Top.pc = "wait"

OnBoard(cell) == ~OffBoard(cell)

Adjacent(a, b) ==
    \/ a[1] = b[1] /\ (a[2] - b[2]) \in {-1, 1}
    \/ a[2] = b[2] /\ (a[1] - b[1]) \in {-1, 1}

\* C18: during every ai_move and alpha_beta call started from a reachable
\* state, at every nesting depth, each make_move call has board[from] =
\* current_player and board[to] = the opponent's colour, with to orthogonally
\* adjacent to from; neither make_move nor undo_move takes its ValueError or
\* IndexError branch inside the search.
C18_SearchMovesValid ==
    /\ AboutToMake =>
          LET m == Top.moves[Top.k]
          IN /\ OnBoard(m[1]) /\ OnBoard(m[2])
             /\ board[m[1]] = current_player
             /\ board[m[2]] = Opponent(current_player)
             /\ Adjacent(m[1], m[2])
             /\ make_move(board, current_player, m).board # board
    /\ AboutToUndo =>
          LET m == Top.moves[Top.k]
          IN /\ OnBoard(m[1]) /\ OnBoard(m[2])
             /\ board[m[1]] = EMPTY
             /\ board[m[2]] = Opponent(current_player)
             /\ undo_move(board, current_player, m).board # board

\* Three calls deep, a frame that has already tried a move is about to make
\* its next one.
C18_Witness ==
    /\ AboutToMake
    /\ Len(stack) >= 3
    /\ Top.k >= 2
    /\ Top.moves[Top.k] \in LegalSet(board, current_player)

----------------------------------------------------------------------------
\* Termination of the game and of the search (SpecTerm).

\* C19: every game terminates without the depth bound.  From the initial
\* rows x cols board a sequence of legal moves has at most rows*cols - 1 moves:
\* each move leaves one stone less and at least one stone stays, a position
\* without a move for the player to move is terminal, and a position with one
\* stone is terminal.  alpha_beta called with a negative depth, which never
\* meets depth == 0, returns.
C19_Terminates ==
    /\ [](Len(trail) <= rows * cols - 1)
    /\ [](stack = <<>> => Stones(board) = rows * cols - Len(trail))
    /\ [](get_legal_moves(board, current_player) = <<>> => is_terminal(board))
    /\ [](Stones(board) = 1 => is_terminal(board))
    /\ (stack # <<>> ~> stack = <<>>)

\* alpha_beta with a negative depth has returned from the initial position of
\* an eight-cell board.
C19_Witness ==
    /\ Returned("alpha_beta")
    /\ call.depth < 0
    /\ rows * cols >= 8
    /\ call.board = init_board(rows, cols)
    /\ ~is_terminal(call.board)

----------------------------------------------------------------------------
\* The number of moves made fixes the player to move and the stone counts
\* (SpecTerm).

\* The moves made from the initial board and not taken back: those of the
\* game and those the search has made on top of them.
MovesMade == Len(trail) + Len(Outstanding(stack))

InitialCount(c) == countOf(init_board(rows, cols), c)

\* The value of evaluate() after k moves.
EvaluateAfter(k) ==
    IF k % 2 = 0
    THEN InitialCount(BLACK) - InitialCount(WHITE)
    ELSE InitialCount(WHITE) - InitialCount(BLACK) - 1

\* C20: in every state reached from the initial board by k legal moves, in
\* the game or inside the search, current_player is BLACK iff k is even,
\* countOf(WHITE) is its initial value minus ceil(k/2) and countOf(BLACK) its
\* initial value minus floor(k/2); so evaluate() depends on k only, not on
\* which moves were played.
C20_CountsFollowMoveNumber ==
    /\ current_player = BLACK <=> MovesMade % 2 = 0
    /\ countOf(board, WHITE) = InitialCount(WHITE) - ((MovesMade + 1) \div 2)
    /\ countOf(board, BLACK) = InitialCount(BLACK) - (MovesMade \div 2)
    /\ evaluate(board, current_player) = EvaluateAfter(MovesMade)

\* Three moves made, one in the game and two inside the search.
C20_Witness ==
    /\ Len(trail) = 1
    /\ Len(Outstanding(stack)) = 2
    /\ current_player = WHITE
    /\ countOf(board, WHITE) = InitialCount(WHITE) - 2
    /\ countOf(board, BLACK) = InitialCount(BLACK) - 1

====
